---- MODULE Spec2Model ----
(***************************************************************************)
(* The travel/dining assistant backend of main.py: the process-wide        *)
(* preference list, the module-level Assistant object shared by every      *)
(* request, the /query_assistant handler with its generate_response        *)
(* generator, and the tool-augmented assistant loop that generator         *)
(* iterates (swag.assistant, modelled from sections 4.1-4.5 of the spec).  *)
(*                                                                         *)
(* One action is one run of a coroutine between two suspension points of   *)
(* the asyncio event loop: a handler body without awaits is one step, and  *)
(* a generator runs from one yield to the next.                            *)
(***************************************************************************)
EXTENDS Integers, Sequences, FiniteSets, TLC

\* ------------------------------------------------------------------ bounds
\* Preferences added in a run, text fragments in one model round, tool calls
\* in one model turn.
MaxPrefs == 2
MaxText == 1
MaxCalls == 2

\* The loop's configured maximum round count (spec 4.3).
MaxRounds == 2

\* ------------------------------------------------------------------ inputs
\* Request slots, preference values, query types (one unsupported), the
\* string geocoder.ip gives for the location (the second is a failed lookup),
\* the tool the model asks for (known to the trip set only) and how a tool
\* execution ends.
Queries == {"q1", "q2"}
PrefValues == {"vegan", "cheap"}
QueryTypes == {"trip", "restaurant", "place", "hotel"}
QueryTexts == {"Find me Italian food"}
Locations == {"Seattle, US", "None, None"}
ModelToolNames == {"Geocode"}
ToolOutcomes == {"ok", "fail"}

\* ------------------------------------------------------------- main.py data
TripTools == <<"SearchInternet", "ReadWebsite", "Geocode", "GetDistanceMatrix", "OptimizeRoute">>

PlaceTools == <<"SearchInternet", "ReadWebsite", "SearchForNearbyPlacesOfType">>

system_trip == [template |-> "trip"]

NoSystem == [template |-> "unset"]

RECURSIVE Join(_)
Join(list) ==
    IF list = <<>> THEN ""
    ELSE IF Len(list) = 1 THEN list[1]
    ELSE list[1] \o ", " \o Join(Tail(list))

additional_info(query_type) ==
    IF query_type = "restaurant"
    THEN "recommended menu options, expected price to eat there & overall restaurant rating"
    ELSE "recommended activities, expected costs & overall ratings"

action(query_type) == IF query_type = "restaurant" THEN "eat" ELSE "visit"

system_template(query_type, location, prefs) ==
    [template |-> "find",
     query_type |-> query_type,
     location |-> location,
     action |-> action(query_type),
     preferences_str |-> prefs,
     additional_info |-> additional_info(query_type)]

InvalidMessage(query_type) == [kind |-> "text", invalid |-> query_type]

BranchNoElse(query_type) ==
    IF query_type = "trip" THEN "trip" ELSE "find"

Branch(query_type) ==
    IF query_type = "trip" THEN "trip"
    ELSE IF query_type \in {"restaurant", "place"} THEN "find"
    ELSE "invalid"

ToolListSwapped(branch) == IF branch = "trip" THEN PlaceTools ELSE TripTools

ToolList(branch) == IF branch = "trip" THEN TripTools ELSE PlaceTools

SystemFor(q) ==
    IF Branch(q.query_type) = "trip" THEN system_trip
    ELSE system_template(q.query_type, q.location_str, q.preferences_str)

AppendPrefUnique(list, p) ==
    IF \E i \in 1..Len(list) : list[i] = p THEN list ELSE Append(list, p)

AppendPref(list, p) == Append(list, p)

get_preferences(list) == [preferences |-> list]

ForwardOnlyText(stream, chunk) ==
    IF chunk.kind = "text" THEN Append(stream, chunk) ELSE stream

Forward(stream, chunk) == Append(stream, chunk)

\* --------------------------------------------------- swag.assistant (spec)
define_tools(list) == {list[i] : i \in 1..Len(list)}

Execute(registry, call, outcome) ==
    IF call.name \notin registry
    THEN [role |-> "tool", id |-> call.id, error |-> "UnknownToolError"]
    ELSE IF outcome = "ok"
    THEN [role |-> "tool", id |-> call.id, error |-> "none"]
    ELSE [role |-> "tool", id |-> call.id, error |-> "ToolExecutionError"]

AppendResultsAsCompleted(conv, order, res) ==
    conv \o [k \in 1..Len(order) |-> res[order[k]]]

AppendResults(conv, order, res) ==
    conv \o [i \in 1..Len(order) |-> res[i]]

LimitNever(r) == FALSE

LimitReached(r) == r >= MaxRounds

\* ------------------------------------------------------------------- state
VARIABLES
    user_preferences,   \* main.py: the process-wide preference list
    addLog,             \* history: the values passed to add_preference, in call order
    assistant,          \* main.py: the shared Assistant's system prompt and active tools
    pc,                 \* per request: where its handler / generator / loop stands
    query,              \* per request: query_type, query, preferences_str, location_str
    seenPrefs,          \* history: the preference list when the request was received
    defineCalls,        \* history: define_tools calls made by the request
    round,              \* loop: model rounds started
    sent,               \* loop: the (system, tools) of each model request, in order
    texts,              \* loop: text fragments received in the current round
    calls,              \* loop: the tool calls of the current turn, in request order
    started,            \* loop: how many of them have been started
    completed,          \* loop: indices of the finished calls, in completion order
    results,            \* loop: the result of each finished call, by index
    conv,               \* loop: the conversation (ordered messages)
    failure,            \* loop: why it failed, or "none"
    produced,           \* the events the loop has yielded
    delivered           \* the chunks generate_response has yielded to the caller

vars == <<user_preferences, addLog, assistant, pc, query, seenPrefs, defineCalls, round, sent,
          texts, calls, started, completed, results, conv, failure, produced, delivered>>

loopVars == <<round, sent, texts, calls, started, completed, results, conv, failure>>

NoQuery == [query_type |-> "", query |-> "", preferences_str |-> "", location_str |-> ""]

Init ==
    /\ user_preferences = <<>>
    /\ addLog = <<>>
    /\ assistant = [system |-> NoSystem, tools |-> {}]
    /\ pc = [q \in Queries |-> "idle"]
    /\ query = [q \in Queries |-> NoQuery]
    /\ seenPrefs = [q \in Queries |-> <<>>]
    /\ defineCalls = [q \in Queries |-> 0]
    /\ round = [q \in Queries |-> 0]
    /\ sent = [q \in Queries |-> <<>>]
    /\ texts = [q \in Queries |-> 0]
    /\ calls = [q \in Queries |-> <<>>]
    /\ started = [q \in Queries |-> 0]
    /\ completed = [q \in Queries |-> <<>>]
    /\ results = [q \in Queries |-> <<>>]
    /\ conv = [q \in Queries |-> <<>>]
    /\ failure = [q \in Queries |-> "none"]
    /\ produced = [q \in Queries |-> <<>>]
    /\ delivered = [q \in Queries |-> <<>>]

\* ---------------------------------------------------------------- handlers
add_preference(p) ==
    /\ Len(user_preferences) < MaxPrefs
    /\ user_preferences' = AppendPref(user_preferences, p)
    /\ addLog' = Append(addLog, p)
    /\ UNCHANGED <<assistant, pc, query, seenPrefs, defineCalls, loopVars, produced, delivered>>

\* The body of query_assistant: the preference list is read through
\* get_preferences and joined, the location is looked up, and the
\* StreamingResponse is returned with generate_response not yet started.
query_assistant(q, query_type, text, location) ==
    /\ pc[q] = "idle"
    /\ query' = [query EXCEPT ![q] =
           [query_type |-> query_type,
            query |-> text,
            preferences_str |-> Join(get_preferences(user_preferences).preferences),
            location_str |-> location]]
    /\ seenPrefs' = [seenPrefs EXCEPT ![q] = user_preferences]
    /\ pc' = [pc EXCEPT ![q] = "received"]
    /\ UNCHANGED <<user_preferences, addLog, assistant, defineCalls, round, sent, texts,
                   calls, started, completed, results, conv, failure, produced, delivered>>

\* generate_response up to its first suspension, supported type: the system
\* prompt is assigned, define_tools is called, and the loop is entered, which
\* sends its first model request before it first awaits.
GenerateStart(q) ==
    /\ pc[q] = "received"
    /\ Branch(query[q].query_type) # "invalid"
    /\ LET configured == [system |-> SystemFor(query[q]),
                          tools |-> define_tools(ToolList(Branch(query[q].query_type)))]
       IN /\ assistant' = configured
          /\ sent' = [sent EXCEPT ![q] = <<configured>>]
    /\ defineCalls' = [defineCalls EXCEPT ![q] = @ + 1]
    /\ conv' = [conv EXCEPT ![q] = <<[role |-> "user", content |-> query[q].query]>>]
    /\ round' = [round EXCEPT ![q] = 1]
    /\ pc' = [pc EXCEPT ![q] = "ModelStreaming"]
    /\ UNCHANGED <<user_preferences, addLog, query, seenPrefs, texts, calls, started, completed,
                   results, failure, produced, delivered>>

\* generate_response, unsupported type: the message is yielded.
GenerateInvalid(q) ==
    /\ pc[q] = "received"
    /\ Branch(query[q].query_type) = "invalid"
    /\ delivered' = [delivered EXCEPT ![q] = Append(@, InvalidMessage(query[q].query_type))]
    /\ pc' = [pc EXCEPT ![q] = "invalid_yielded"]
    /\ UNCHANGED <<user_preferences, addLog, assistant, query, seenPrefs, defineCalls,
                   loopVars, produced>>

\* generate_response, unsupported type: the return after the yield.
GenerateReturn(q) ==
    /\ pc[q] = "invalid_yielded"
    /\ pc' = [pc EXCEPT ![q] = "closed"]
    /\ UNCHANGED <<user_preferences, addLog, assistant, query, seenPrefs, defineCalls, loopVars,
                   produced, delivered>>

\* One event yielded by the loop and, in the same run, yielded on by
\* generate_response's async for.
Emit(q, event) ==
    /\ produced' = [produced EXCEPT ![q] = Append(@, event)]
    /\ delivered' = [delivered EXCEPT ![q] = Forward(@, event)]

\* The async for ends with the loop; generate_response returns.
GenerateEnd(q) ==
    /\ pc[q] \in {"Done", "Failed"}
    /\ pc' = [pc EXCEPT ![q] = "closed"]
    /\ UNCHANGED <<user_preferences, addLog, assistant, query, seenPrefs, defineCalls, loopVars,
                   produced, delivered>>

\* ---------------------------------------------------------- assistant loop
ModelText(q) ==
    /\ pc[q] = "ModelStreaming"
    /\ texts[q] < MaxText
    /\ texts' = [texts EXCEPT ![q] = @ + 1]
    /\ Emit(q, [kind |-> "text", round |-> round[q], n |-> texts[q] + 1])
    /\ UNCHANGED <<user_preferences, addLog, assistant, pc, query, seenPrefs, defineCalls, round,
                   sent, calls, started, completed, results, conv, failure>>

ModelToolCalls(q, names) ==
    /\ pc[q] = "ModelStreaming"
    /\ LET requests == [i \in 1..Len(names) |-> [id |-> <<round[q], i>>, name |-> names[i]]]
       IN /\ calls' = [calls EXCEPT ![q] = requests]
          /\ conv' = [conv EXCEPT ![q] =
                 Append(@, [role |-> "assistant", texts |-> texts[q], calls |-> requests])]
    /\ started' = [started EXCEPT ![q] = 0]
    /\ completed' = [completed EXCEPT ![q] = <<>>]
    /\ results' = [results EXCEPT ![q] = [i \in 1..Len(names) |-> [role |-> "pending"]]]
    /\ pc' = [pc EXCEPT ![q] = "ExecutingTools"]
    /\ UNCHANGED <<user_preferences, addLog, assistant, query, seenPrefs, defineCalls, round, sent,
                   texts, failure, produced, delivered>>

StartTool(q) ==
    /\ pc[q] = "ExecutingTools"
    /\ started[q] < Len(calls[q])
    /\ started' = [started EXCEPT ![q] = @ + 1]
    /\ Emit(q, [kind |-> "tool_started", id |-> calls[q][started[q] + 1].id])
    /\ UNCHANGED <<user_preferences, addLog, assistant, pc, query, seenPrefs, defineCalls, round,
                   sent, texts, calls, completed, results, conv, failure>>

CompleteTool(q, i, outcome) ==
    /\ pc[q] = "ExecutingTools"
    /\ i \in 1..started[q]
    /\ \A k \in 1..Len(completed[q]) : completed[q][k] # i
    /\ results' = [results EXCEPT ![q][i] = Execute(assistant.tools, calls[q][i], outcome)]
    /\ completed' = [completed EXCEPT ![q] = Append(@, i)]
    /\ Emit(q, [kind |-> "tool_completed", id |-> calls[q][i].id])
    /\ UNCHANGED <<user_preferences, addLog, assistant, pc, query, seenPrefs, defineCalls, round,
                   sent, texts, calls, started, conv, failure>>

\* All results of the turn are in: they are appended and the next round's
\* request is sent with the assistant's current system prompt and tools.
NextRound(q) ==
    /\ pc[q] = "ExecutingTools"
    /\ Len(completed[q]) = Len(calls[q])
    /\ ~LimitReached(round[q])
    /\ conv' = [conv EXCEPT ![q] = AppendResults(@, completed[q], results[q])]
    /\ round' = [round EXCEPT ![q] = @ + 1]
    /\ sent' = [sent EXCEPT ![q] = Append(@, assistant)]
    /\ texts' = [texts EXCEPT ![q] = 0]
    /\ pc' = [pc EXCEPT ![q] = "ModelStreaming"]
    /\ UNCHANGED <<user_preferences, addLog, assistant, query, seenPrefs, defineCalls, calls,
                   started, completed, results, failure, produced, delivered>>

LoopLimit(q) ==
    /\ pc[q] = "ExecutingTools"
    /\ Len(completed[q]) = Len(calls[q])
    /\ LimitReached(round[q])
    /\ conv' = [conv EXCEPT ![q] = AppendResults(@, completed[q], results[q])]
    /\ failure' = [failure EXCEPT ![q] = "LoopLimitExceeded"]
    /\ pc' = [pc EXCEPT ![q] = "Failed"]
    /\ Emit(q, [kind |-> "error", error |-> "LoopLimitExceeded"])
    /\ UNCHANGED <<user_preferences, addLog, assistant, query, seenPrefs, defineCalls, round, sent,
                   texts, calls, started, completed, results>>

ModelEnd(q) ==
    /\ pc[q] = "ModelStreaming"
    /\ conv' = [conv EXCEPT ![q] =
           Append(@, [role |-> "assistant", texts |-> texts[q], calls |-> <<>>])]
    /\ pc' = [pc EXCEPT ![q] = "Done"]
    /\ Emit(q, [kind |-> "completion"])
    /\ UNCHANGED <<user_preferences, addLog, assistant, query, seenPrefs, defineCalls, round, sent,
                   texts, calls, started, completed, results, failure>>

ModelError(q) ==
    /\ pc[q] = "ModelStreaming"
    /\ failure' = [failure EXCEPT ![q] = "ModelStreamError"]
    /\ pc' = [pc EXCEPT ![q] = "Failed"]
    /\ Emit(q, [kind |-> "error", error |-> "ModelStreamError"])
    /\ UNCHANGED <<user_preferences, addLog, assistant, query, seenPrefs, defineCalls, round, sent,
                   texts, calls, started, completed, results, conv>>

CallLists(n) == [1..n -> ModelToolNames]

\* The loop with every shape of model response: up to MaxText text fragments
\* and up to MaxCalls tool calls in a turn, finishing in any order; the tools
\* themselves do not fail.
LoopStep(q) ==
    \/ ModelText(q)
    \/ \E n \in 1..MaxCalls : \E names \in CallLists(n) : ModelToolCalls(q, names)
    \/ StartTool(q)
    \/ \E i \in 1..MaxCalls : CompleteTool(q, i, "ok")
    \/ NextRound(q)
    \/ LoopLimit(q)
    \/ ModelEnd(q)
    \/ ModelError(q)

\* The loop with a model that answers a round with one tool call or ends;
\* the tool may fail.
OneCallStep(q) ==
    \/ \E names \in CallLists(1) : ModelToolCalls(q, names)
    \/ StartTool(q)
    \/ \E outcome \in ToolOutcomes : CompleteTool(q, 1, outcome)
    \/ NextRound(q)
    \/ LoopLimit(q)
    \/ ModelEnd(q)
    \/ ModelError(q)

HandlerStep(q) ==
    \/ \E t \in QueryTypes : \E text \in QueryTexts : \E loc \in Locations :
           query_assistant(q, t, text, loc)
    \/ GenerateStart(q)
    \/ GenerateInvalid(q)
    \/ GenerateReturn(q)
    \/ GenerateEnd(q)

\* Two concurrent requests against the one process.
Next == \E q \in Queries : HandlerStep(q) \/ OneCallStep(q)

Spec == Init /\ [][Next]_vars

\* One request while preferences are being added.
PrefNext ==
    \/ \E p \in PrefValues : add_preference(p)
    \/ HandlerStep("q1")
    \/ OneCallStep("q1")

PrefSpec == Init /\ [][PrefNext]_vars

\* One request, every shape of model response.
LoopNext == HandlerStep("q1") \/ LoopStep("q1")

LoopSpec == Init /\ [][LoopNext]_vars

\* ------------------------------------------------------------ properties
Last(stream) == stream[Len(stream)]

Supported(q) == query[q].query_type \in {"trip", "restaurant", "place"}

Unsupported(q) == pc[q] # "idle" /\ ~Supported(q)

SelectedTools(q) ==
    IF query[q].query_type = "trip"
    THEN {"SearchInternet", "ReadWebsite", "Geocode", "GetDistanceMatrix", "OptimizeRoute"}
    ELSE {"SearchInternet", "ReadWebsite", "SearchForNearbyPlacesOfType"}

BuiltPrompt(q) ==
    IF query[q].query_type = "trip" THEN [template |-> "trip"]
    ELSE [template |-> "find",
          query_type |-> query[q].query_type,
          location |-> query[q].location_str,
          action |-> IF query[q].query_type = "restaurant" THEN "eat" ELSE "visit",
          preferences_str |-> Join(seenPrefs[q]),
          additional_info |-> additional_info(query[q].query_type)]

\* C1: a query whose type is not trip, restaurant or place gets exactly one
\* text message, the invalid-query-type message, and then the stream ends;
\* define_tools is never called, the loop never starts and no tool runs.
C1_InvalidTypeSingleMessage ==
    \A q \in Queries : Unsupported(q) =>
        /\ defineCalls[q] = 0
        /\ round[q] = 0 /\ sent[q] = <<>> /\ conv[q] = <<>> /\ produced[q] = <<>>
        /\ calls[q] = <<>> /\ started[q] = 0 /\ completed[q] = <<>>
        /\ pc[q] \in {"received", "invalid_yielded", "closed"}
        /\ pc[q] = "received" => delivered[q] = <<>>
        /\ pc[q] # "received" =>
               delivered[q] = <<[kind |-> "text", invalid |-> query[q].query_type]>>

C1_Witness ==
    \E q \in Queries :
        /\ query[q].query_type = "hotel" /\ pc[q] = "closed"
        /\ Len(delivered[q]) = 1

\* C2: at every model round of a request the tool set sent to the model is
\* the one that request selected at its start, whatever other requests do.
C2_ToolSetFixed ==
    \A q \in Queries : \A k \in 1..Len(sent[q]) : sent[q][k].tools = SelectedTools(q)

\* C3: at every model round of a request the system prompt sent is the one
\* built for that request, and it goes with the tool set of the same type.
C3_OwnPromptAndTools ==
    \A q \in Queries : \A k \in 1..Len(sent[q]) :
        /\ sent[q][k].system = BuiltPrompt(q)
        /\ sent[q][k].system.template = "trip"
               <=> sent[q][k].tools =
                   {"SearchInternet", "ReadWebsite", "Geocode", "GetDistanceMatrix",
                    "OptimizeRoute"}

\* C5: for a supported type the chunks delivered to the caller are exactly
\* the events the loop produced, one for one and in the same order.
C5_DeliveredIsProduced ==
    \A q \in Queries : (pc[q] # "idle" /\ Supported(q)) => delivered[q] = produced[q]

C5_Witness ==
    \E q \in Queries :
        /\ pc[q] = "closed" /\ Supported(q)
        /\ \E i, j, k \in 1..Len(delivered[q]) :
               /\ i < j /\ j < k
               /\ delivered[q][i].kind = "text"
               /\ delivered[q][j].kind = "tool_started"
               /\ delivered[q][k].kind = "completion"

\* C6: define_tools is called once per supported request, before its loop
\* starts, and never again; the first model request already carries the
\* prompt built for the request and exactly the tool set of its type.
C6_SelectedOnceBeforeLoop ==
    \A q \in Queries : (pc[q] # "idle" /\ Supported(q)) =>
        /\ round[q] = 0 => (defineCalls[q] = 0 /\ pc[q] = "received")
        /\ round[q] >= 1 =>
               /\ defineCalls[q] = 1
               /\ sent[q][1].tools = SelectedTools(q)
               /\ sent[q][1].system = BuiltPrompt(q)

C6_Witness ==
    \E q \in Queries :
        /\ query[q].query_type = "place" /\ round[q] = 2 /\ defineCalls[q] = 1
        /\ \E r \in Queries : query[r].query_type = "trip" /\ round[r] >= 1

\* C9: no step of a request with an unsupported type changes the shared
\* assistant's system prompt or active tool set.
C9_InvalidLeavesAssistant ==
    [][\A q \in Queries :
           (pc'[q] # pc[q] /\ query'[q].query_type \notin {"trip", "restaurant", "place"})
               => assistant' = assistant]_vars

C9_Witness ==
    \E q, r \in Queries :
        /\ query[q].query_type = "hotel" /\ pc[q] = "closed"
        /\ pc[r] = "ExecutingTools"
        /\ assistant.tools = SelectedTools(r)

RoundCost == MaxText + 2 * MaxCalls + 2

Remaining(q) ==
    CASE pc[q] = "idle" -> (MaxRounds + 1) * RoundCost + 4
      [] pc[q] = "received" -> (MaxRounds + 1) * RoundCost + 3
      [] pc[q] = "ModelStreaming" ->
             (MaxRounds - round[q]) * RoundCost + (MaxText - texts[q]) + 2 * MaxCalls + 4
      [] pc[q] = "ExecutingTools" ->
             (MaxRounds - round[q]) * RoundCost
                 + (2 * Len(calls[q]) - started[q] - Len(completed[q])) + 3
      [] pc[q] \in {"Done", "Failed", "invalid_yielded"} -> 1
      [] OTHER -> 0

Stepped(q) == pc'[q] # pc[q] \/ produced'[q] # produced[q]

CanStep(q) == pc[q] \notin {"idle", "closed"} => ENABLED (HandlerStep(q) \/ LoopStep(q))

EndsWithMarker(q) ==
    /\ delivered[q] # <<>>
    /\ Last(delivered[q]).kind \in {"completion", "error"}

\* C4 as stated: an opened stream can always take its next step until it is
\* closed, and the last event of a closed stream is a completion marker or
\* an error marker.
C4_EndsWithCompletionOrError ==
    \A q \in Queries :
        /\ CanStep(q)
        /\ pc[q] = "closed" => EndsWithMarker(q)

\* C4 amended: an opened stream never blocks before it is closed, every step
\* of it brings its end nearer, and a closed stream ends with a completion
\* or error marker when the type is supported and is the single
\* invalid-query-type text message when it is not.
C4_StreamTerminatesWithFinalEvent ==
    /\ [](\A q \in Queries :
            /\ CanStep(q)
            /\ Remaining(q) >= 0
            /\ pc[q] = "closed" =>
                   IF Supported(q) THEN EndsWithMarker(q)
                   ELSE delivered[q] = <<[kind |-> "text", invalid |-> query[q].query_type]>>)
    /\ [][\A q \in Queries : Stepped(q) => Remaining(q)' < Remaining(q)]_vars

C4_Witness ==
    \E q \in Queries :
        /\ pc[q] = "closed" /\ failure[q] = "ModelStreamError"
        /\ Len(delivered[q]) >= 4
        /\ Last(delivered[q]).kind = "error"

\* C7: the loop never starts more than MaxRounds model rounds, its stream is
\* bounded, and a loop whose last allowed round ends in tool calls fails
\* with LoopLimitExceeded instead of starting another round.
C7_LoopBoundedByMaxRounds ==
    \A q \in Queries :
        /\ round[q] <= MaxRounds
        /\ Len(produced[q]) <= MaxRounds * (MaxText + 2 * MaxCalls) + 1
        /\ (pc[q] = "ExecutingTools" /\ round[q] = MaxRounds
                /\ Len(completed[q]) = Len(calls[q]))
               => (ENABLED LoopLimit(q) /\ ~ENABLED NextRound(q))
        /\ failure[q] = "LoopLimitExceeded" =>
               /\ pc[q] \in {"Failed", "closed"}
               /\ round[q] = MaxRounds
               /\ Last(produced[q]).kind = "error"
        /\ (pc[q] \in {"Failed", "closed"} /\ conv[q] # <<>>
                /\ Last(conv[q]).role = "tool" /\ Last(conv[q]).id[1] = MaxRounds)
               => failure[q] = "LoopLimitExceeded"

C7_Witness ==
    \E q \in Queries :
        /\ pc[q] = "closed" /\ failure[q] = "LoopLimitExceeded"
        /\ round[q] = MaxRounds

\* The tool-result messages that follow message i of a conversation.
ResultsAfter(c, i) ==
    LET n == Len(c[i].calls)
    IN /\ Len(c) >= i + n
       /\ \A j \in 1..n : c[i + j].role = "tool" /\ c[i + j].id = c[i].calls[j].id
       /\ Len(c) > i + n => c[i + n + 1].role # "tool"

\* C8: a model turn with N tool calls is followed in the conversation by
\* exactly N tool results, in the order of the requests, whatever order the
\* executions finished in, and no later round starts before they are there.
C8_ResultsInRequestOrder ==
    \A q \in Queries : \A i \in 1..Len(conv[q]) :
        conv[q][i].role = "assistant" =>
            IF pc[q] = "ExecutingTools" /\ i = Len(conv[q])
            THEN conv[q][i].calls = calls[q]
            ELSE ResultsAfter(conv[q], i)

C8_Witness ==
    \E q \in Queries :
        /\ pc[q] = "ModelStreaming" /\ round[q] = 2
        /\ completed[q] = <<2, 1>>
        /\ Len(conv[q]) = 4

====
